---- MODULE Spec2Model ----
(***************************************************************************)
(* Model of flask_management_endpoints/blueprint.py: the /version,         *)
(* /health and /health/<check_name> handlers, the backend prober and the   *)
(* backend URL resolver.                                                   *)
(*                                                                         *)
(* Python strings are modelled as sequences of one-character strings, so   *)
(* that startswith, "in", len and concatenation are computed as the code   *)
(* computes them.                                                          *)
(***************************************************************************)
EXTENDS Integers, Sequences, FiniteSets, TLC

VARIABLES
    app_config,     \* current_app.config: BACKEND_TIMEOUT and Z_ENDPOINTS
    environ,        \* os.environ: PREFERRED_URL_SCHEME, SCHEME, VERSION
    request,        \* the request handled last (route and check_name)
    response,       \* what the client received for it
    cfg_before,     \* app_config as it was when that request arrived
    probes,         \* the calls of _check_backend made while handling it
    calls,          \* the check functions run while handling it
    r_in,           \* run of one function alone: its arguments
    r_out           \* run of one function alone: its result

vars == <<app_config, environ, request, response, cfg_before, probes, calls,
          r_in, r_out>>

NoStr == <<>>       \* a str-valued name holding None (or the empty str)
NoPort == -1        \* Url.port is None

---------------------------------------------------------------------------
(* Bounds of the model *)

\* longest free part of a host spec drawn for the resolver runs
MaxBody == 3
\* most service dependencies in Z_ENDPOINTS
MaxDeps == 2
\* check names are drawn up to this many characters past the length limit
MaxOver == 2

---------------------------------------------------------------------------
(* Strings *)

S_http   == <<"h","t","t","p">>
S_https  == <<"h","t","t","p","s">>
S_health == <<"/","h","e","a","l","t","h">>
S_readiness == <<"r","e","a","d","i","n","e","s","s">>
S_liveness  == <<"l","i","v","e","n","e","s","s">>
S_ping      == <<"p","i","n","g">>
S_version_function ==
    <<"v","e","r","s","i","o","n","_","f","u","n","c","t","i","o","n">>
S_foo == <<"f","o","o">>

\* str.startswith
startswith(s, p) == Len(s) >= Len(p) /\ SubSeq(s, 1, Len(p)) = p

\* c in s, for a one-character c
contains(s, c) == \E i \in 1..Len(s) : s[i] = c

\* s.find(c) + 1: the first position of c in s, 0 when absent
find(s, c) ==
    IF contains(s, c)
    THEN CHOOSE i \in 1..Len(s) : s[i] = c /\ \A j \in 1..(i-1) : s[j] # c
    ELSE 0

\* s[i-1:]
from(s, i) == SubSeq(s, i, Len(s))

Digits == {"0","1","2","3","4","5","6","7","8","9"}
DigitChr == <<"0","1","2","3","4","5","6","7","8","9">>
DigitVal(c) == CHOOSE n \in 0..9 : DigitChr[n+1] = c

UpperToLower == [c \in {"A","H","T","P","S","Z"} |->
                   CASE c = "A" -> "a" [] c = "H" -> "h" [] c = "T" -> "t"
                     [] c = "P" -> "p" [] c = "S" -> "s" [] c = "Z" -> "z"]
LowerAlpha == {"a","b","c","d","e","f","g","h","i","j","k","l","m","n","o",
               "p","q","r","s","t","u","v","w","x","y","z"}
IsAlpha(c) == c \in LowerAlpha \/ c \in DOMAIN UpperToLower
IsSchemeChar(c) == IsAlpha(c) \/ c \in Digits \/ c \in {"+", "-"}

\* str.lower
lower(s) == [i \in 1..Len(s) |->
               IF s[i] \in DOMAIN UpperToLower THEN UpperToLower[s[i]] ELSE s[i]]

\* int(s) for a string of decimal digits
RECURSIVE int(_)
int(s) == IF s = <<>> THEN 0
          ELSE 10 * int(SubSeq(s, 1, Len(s) - 1)) + DigitVal(s[Len(s)])

\* str(n) for n >= 0
RECURSIVE str(_)
str(n) == IF n < 10 THEN <<DigitChr[n+1]>>
          ELSE str(n \div 10) \o <<DigitChr[(n % 10) + 1]>>

\* s with its leading zeros removed
RECURSIVE lstrip0(_)
lstrip0(s) == IF s # <<>> /\ s[1] = "0" THEN lstrip0(Tail(s)) ELSE s

---------------------------------------------------------------------------
(* urllib3.util.parse_url and str(Url), as called by _backend_host_as_url. *)
(* Modelled for URLs without '?', '#', '@', '%', '[' and '.'.              *)

MaxPort == 65535

\* SCHEME_RE: the url starts with '/' or with "<scheme>:"
SchemeEnd(url) ==
    LET i == find(url, ":")
    IN IF i > 1 /\ IsAlpha(url[1]) /\ \A j \in 2..(i-1) : IsSchemeChar(url[j])
       THEN i ELSE 0

\* _HOST_PORT_RE on an authority, then int(port) and its range check
HostPort(authority) ==
    LET i == find(authority, ":")
        host == IF i = 0 THEN authority ELSE SubSeq(authority, 1, i - 1)
        ds == IF i = 0 THEN <<>> ELSE from(authority, i + 1)
        allDigits == \A j \in 1..Len(ds) : ds[j] \in Digits
        sig == lstrip0(ds)
        port == IF ds = <<>> THEN NoPort ELSE int(sig)
    IN IF ~allDigits \/ Len(sig) > 5 \/ port > MaxPort
       THEN [ok |-> FALSE, host |-> NoStr, port |-> NoPort]
       ELSE [ok |-> TRUE, host |-> host, port |-> port]

\* str(parse_url(url)); ok = FALSE when parse_url raises LocationParseError
parse_url(url) ==
    LET e == SchemeEnd(url)
        noScheme == e = 0 /\ ~startswith(url, <<"/">>)
        scheme == IF e = 0 THEN NoStr ELSE lower(SubSeq(url, 1, e - 1))
        rest == IF e # 0 THEN from(url, e + 1)
                ELSE IF noScheme THEN <<"/","/">> \o url ELSE url
        hasAuth == startswith(rest, <<"/","/">>)
        afterSl == from(rest, 3)
        k == find(afterSl, "/")
        authority == IF ~hasAuth THEN <<>>
                     ELSE IF k = 0 THEN afterSl ELSE SubSeq(afterSl, 1, k - 1)
        path0 == IF ~hasAuth THEN rest
                 ELSE IF k = 0 THEN <<>> ELSE from(afterSl, k)
        hp == IF authority = <<>> THEN [ok |-> TRUE, host |-> NoStr, port |-> NoPort]
              ELSE HostPort(authority)
        normalizable == scheme = NoStr \/ scheme = S_http \/ scheme = S_https
        path == IF path0 # <<>> /\ path0[1] # "/" THEN <<"/">> \o path0 ELSE path0
    IN IF ~hp.ok THEN [ok |-> FALSE, url |-> <<>>]
       ELSE [ok |-> TRUE,
             url |-> (IF scheme = NoStr THEN <<>> ELSE scheme \o <<":","/","/">>)
                     \o (IF normalizable THEN lower(hp.host) ELSE hp.host)
                     \o (IF hp.port = NoPort THEN <<>> ELSE <<":">> \o str(hp.port))
                     \o path]

---------------------------------------------------------------------------
(* The URL resolver *)

DEFAULT_URL_PREFIX == <<"/","z">>

\* os.getenv('PREFERRED_URL_SCHEME', os.getenv('SCHEME', 'http'))
preferred_scheme(env) ==
    IF env.PREFERRED_URL_SCHEME # NoStr THEN env.PREFERRED_URL_SCHEME
    ELSE IF env.SCHEME # NoStr THEN env.SCHEME
    ELSE S_http

\* the candidate url _backend_host_as_url assembles before parsing it
candidate_url(env, backend_host, check_name) ==
    LET check_endpoint == IF check_name # NoStr THEN <<"/">> \o check_name
                          ELSE <<>>
        scheme == preferred_scheme(env)
        url_prefix == DEFAULT_URL_PREFIX
    IN IF ~startswith(backend_host, S_http) /\ ~contains(backend_host, "/")
       THEN scheme \o <<":","/","/">> \o backend_host \o url_prefix
              \o S_health \o check_endpoint
       ELSE IF ~startswith(backend_host, S_http)
       THEN scheme \o <<":","/","/">> \o backend_host \o check_endpoint
       ELSE backend_host \o check_endpoint

\* _backend_host_as_url: raised = TRUE when it raises HealthError
_backend_host_as_url(env, backend_host, check_name) ==
    IF backend_host = <<>> THEN [raised |-> TRUE, url |-> <<>>]
    ELSE LET parsed == parse_url(candidate_url(env, backend_host, check_name))
         IN IF parsed.ok THEN [raised |-> FALSE, url |-> parsed.url]
            ELSE [raised |-> TRUE, url |-> <<>>]

---------------------------------------------------------------------------
(* Module constants of blueprint.py *)

\* liveness made a cascading check
cascading_checks_mut == <<S_readiness, S_liveness>>

cascading_checks == <<S_readiness>>
checks_with_pluggable_functions == <<S_readiness, S_version_function>>
MaxCheckNameLen == 128

\* x in lst, for a Python list
in_list(x, lst) == \E i \in 1..Len(lst) : lst[i] = x

_up_or_down(flag) == IF flag THEN "UP" ELSE "DOWN"

_success_status_code(flag) == IF flag THEN 200 ELSE 503

S_unknown == <<"u","n","k","n","o","w","n">>

\* the  or 'unknown'  forgotten
_default_version_function_mut(env) == [body |-> env.VERSION, status_code |-> 200]

\* _default_version_function: (os.environ.get('VERSION') or 'unknown', 200)
_default_version_function(env) ==
    [body |-> IF env.VERSION # NoStr THEN env.VERSION ELSE S_unknown,
     status_code |-> 200]

---------------------------------------------------------------------------
(* The check registry: current_app.config['Z_ENDPOINTS']                   *)
(* A dict is a function on its keys; service_dependencies and each family  *)
(* of check_functions keep their insertion order as sequences.             *)

\* _z_endpoints_config: the dict it returns, and current_app.config after
\* the defaults it stores into that dict
_z_endpoints_config(app) ==
    LET shared == "Z_ENDPOINTS" \in DOMAIN app
        c0 == IF ~shared THEN <<>> ELSE app["Z_ENDPOINTS"]
        c1 == IF "service_dependencies" \notin DOMAIN c0
              THEN c0 @@ ("service_dependencies" :> <<>>) ELSE c0
        c2 == IF "check_functions" \notin DOMAIN c1
              THEN c1 @@ ("check_functions" :> <<>>) ELSE c1
        c3 == IF "version_function" \notin DOMAIN c2
              THEN c2 @@ ("version_function" :> "_default_version_function")
              ELSE c2
        c4 == IF "enable_service_instance_id" \notin DOMAIN c3
              THEN c3 @@ ("enable_service_instance_id" :> FALSE) ELSE c3
    IN [config |-> c4,
        app |-> IF shared THEN [app EXCEPT !["Z_ENDPOINTS"] = c4] ELSE app]

---------------------------------------------------------------------------
(* The backend prober *)

\* What a dependency can do with one GET: requests.get raises (connection
\* failure, timeout), or a response arrives with a status code and a body
\* that is not JSON or is JSON of some shape.
JObject(f)  == [t |-> "object", obj |-> f, arr |-> <<>>, str |-> <<>>]
JArray(a)   == [t |-> "array",  obj |-> <<>>, arr |-> a, str |-> <<>>]
JString(x)  == [t |-> "string", obj |-> <<>>, arr |-> <<>>, str |-> x]
JNumber     == [t |-> "number", obj |-> <<>>, arr |-> <<>>, str |-> <<>>]
NotJSON     == [t |-> "invalid", obj |-> <<>>, arr |-> <<>>, str |-> <<>>]

Answer(code, body) == [arrived |-> TRUE, status_code |-> code, body |-> body]
NoAnswer == [arrived |-> FALSE, status_code |-> 0, body |-> NotJSON]

Answers == <<
    NoAnswer,
    Answer(200, NotJSON),
    Answer(200, JObject("status" :> "UP")),
    Answer(503, JObject("status" :> "UP")),
    Answer(200, JObject("status" :> "DOWN")),
    Answer(200, JObject("detail" :> "x")),
    Answer(200, JObject(<<>>)),
    Answer(200, JArray(<<JNumber>>)),
    Answer(200, JString(<<"o","k">>)),
    Answer(200, JNumber) >>

\* requests.get sends nothing unless the url is http(s)://<host>...
sendable(url) ==
    LET rest == IF startswith(url, S_https \o <<":","/","/">>) THEN from(url, 9)
                ELSE IF startswith(url, S_http \o <<":","/","/">>) THEN from(url, 8)
                ELSE <<>>
    IN rest # <<>> /\ rest[1] \notin {"/", ":"}

\* bool(response_json)
truthy(j) ==
    CASE j.t = "object" -> DOMAIN j.obj # {}
      [] j.t = "array"  -> j.arr # <<>>
      [] j.t = "string" -> j.str # <<>>
      [] OTHER -> TRUE

\* 'status' in response_json and response_json['status'] == 'UP':
\* its value, or the exception it raises
status_is_up(j) ==
    CASE j.t = "object" ->
           [exc |-> "none",
            val |-> "status" \in DOMAIN j.obj /\ j.obj["status"] = "UP"]
      [] j.t = "array" ->
           IF in_list(JString(<<"s","t","a","t","u","s">>), j.arr)
           THEN [exc |-> "TypeError", val |-> FALSE]
           ELSE [exc |-> "none", val |-> FALSE]
      [] j.t = "string" ->
           IF \E i \in 1..Len(j.str) : startswith(from(j.str, i),
                                          <<"s","t","a","t","u","s">>)
           THEN [exc |-> "TypeError", val |-> FALSE]
           ELSE [exc |-> "none", val |-> FALSE]
      [] OTHER -> [exc |-> "TypeError", val |-> FALSE]

\* dict.update on a sequence stops at the first element that is no pair:
\* a number cannot be iterated, a string of another length than 2 is no pair
pair_exc(e) ==
    IF e.t = "number" THEN "TypeError"
    ELSE IF e.t = "string" /\ Len(e.str) = 2 THEN "none"
    ELSE "ValueError"

\* components[_backend_name].update(response.json()) in health's
\* response_hook: the exception it raises and the fields it has stored
update(j) ==
    CASE j.t = "object" -> [exc |-> "none", fields |-> j.obj]
      [] j.t = "array" ->
           LET bad == {i \in 1..Len(j.arr) : pair_exc(j.arr[i]) # "none"}
               n == IF bad = {} THEN Len(j.arr)
                    ELSE (CHOOSE i \in bad : \A k \in bad : i <= k) - 1
               keys == {j.arr[i].str[1] : i \in 1..n}
               last(k) == CHOOSE i \in 1..n :
                             /\ j.arr[i].str[1] = k
                             /\ \A m \in (i+1)..n : j.arr[m].str[1] # k
           IN [exc |-> IF bad = {} THEN "none" ELSE pair_exc(j.arr[n + 1]),
               fields |-> [k \in keys |-> j.arr[last(k)].str[2]]]
      [] OTHER -> [exc |-> "ValueError", fields |-> <<>>]

\* What one call of _check_backend did.
\* exc: the exception that leaves it ("none": it returned ret);
\* merged: the fields its response_hook stored into the component;
\* probe: the url it resolved, whether requests sent a GET to it, and the
\* fields of response_json when a JSON object was decoded.
ProbeResult(exc, ret, merged, entry) ==
    [exc |-> exc, ret |-> ret, merged |-> merged, probe |-> entry]

ProbeEntry(backend_name, check_name, url) ==
    [backend_name |-> backend_name, check_name |-> check_name,
     url |-> url, sent |-> sendable(url), response_json |-> <<>>,
     result |-> "pending"]

\* str(flag), or the name of the exception raised instead
result_of(exc, flag) ==
    IF exc # "none" THEN exc ELSE IF flag THEN "True" ELSE "False"

\* _check_backend from status_is_up on: the body was decoded
classified(up, upd, hooked, ans, entry) ==
    IF up.exc # "none" THEN ProbeResult(up.exc, FALSE, <<>>, entry)
    ELSE IF hooked /\ upd.exc = "TypeError"
      THEN ProbeResult("TypeError", FALSE, upd.fields, entry)
    ELSE IF hooked /\ upd.exc = "ValueError"
      THEN ProbeResult("none", FALSE, upd.fields, entry)
    ELSE ProbeResult("none", ans.status_code = 200 /\ up.val,
                     IF hooked THEN upd.fields ELSE <<>>, entry)

\* _check_backend from requests.get on: the url was resolved
requested(entry, hook, ans) ==
    IF ~entry.sent \/ ~ans.arrived \/ ans.body.t = "invalid"
    THEN ProbeResult("none", FALSE, <<>>, entry)
    ELSE classified(status_is_up(ans.body), update(ans.body),
                    hook /\ truthy(ans.body), ans,
                    [entry EXCEPT !.response_json =
                        IF ans.body.t = "object" THEN ans.body.obj ELSE <<>>])

\* _check_backend once _backend_host_as_url has returned or raised
resolved(r, backend_name, check_name, hook, ans) ==
    IF r.raised
    THEN ProbeResult("none", FALSE, <<>>,
                     ProbeEntry(backend_name, check_name, <<>>))
    ELSE requested(ProbeEntry(backend_name, check_name, r.url), hook, ans)

\* _check_backend against a dependency that answers `ans`
_check_backend(env, app, backend_name, backend_host, check_name, hook, ans) ==
    IF "BACKEND_TIMEOUT" \notin DOMAIN app
    THEN ProbeResult("KeyError", FALSE, <<>>,
                     ProbeEntry(backend_name, check_name, <<>>))
    ELSE resolved(_backend_host_as_url(env, backend_host, check_name),
                  backend_name, check_name, hook, ans)

---------------------------------------------------------------------------
(* Responses of the handlers *)

JsonResponse(doc, code) ==
    [status_code |-> code, kind |-> "json", json |-> doc, text |-> <<>>]
\* a view that returns the tuple (body, status_code)
TupleResponse(body, code) ==
    [status_code |-> code, kind |-> "text", json |-> <<>>, text |-> body]
\* abort(code)
abort(code) ==
    [status_code |-> code, kind |-> "abort", json |-> <<>>, text |-> <<>>]
\* an exception that leaves the view: Flask answers 500
Unhandled(exc) ==
    [status_code |-> 500, kind |-> exc, json |-> <<>>, text |-> <<>>]
NoResponse ==
    [status_code |-> 0, kind |-> "none", json |-> <<>>, text |-> <<>>]

\* what one handling of a request leaves behind
Outcome(resp, app, ps, cs) ==
    [response |-> resp, app |-> app, probes |-> ps, calls |-> cs]

---------------------------------------------------------------------------
(* Check functions and the version function: closures of the host app.     *)
(* A check function returns a truth value or raises; a custom version      *)
(* function returns a (body, status_code) of its own.                      *)

FnResults == <<"True", "False", "raise">>

CustomVersions == << [body |-> <<"2",".","1">>, status_code |-> 200],
                     [body |-> <<"d","e","v">>, status_code |-> 203] >>

Call(family, func_name, result) ==
    [family |-> family, func_name |-> func_name, result |-> result,
     body |-> <<>>, status_code |-> 0]

\* the (family, func_name) pairs in the order the loops
\*   for check_name in names: if check_name in check_config:
\*       for func_name, run_check_func in check_config[check_name].items()
\* visit them
RECURSIVE pluggable(_, _)
pluggable(check_config, names) ==
    IF names = <<>> THEN <<>>
    ELSE LET check_name == Head(names)
             here == IF check_name \in DOMAIN check_config
                     THEN [i \in 1..Len(check_config[check_name]) |->
                             [family |-> check_name,
                              func_name |-> check_config[check_name][i]]]
                     ELSE <<>>
         IN here \o pluggable(check_config, Tail(names))

\* A run of a handler's loops so far: the exception that ended it ("none"
\* while it goes on), its locals, and the calls it has made.
Run(exc, ok, comps, ps, cs) ==
    [exc |-> exc, all_successful |-> ok, components |-> comps,
     probes |-> ps, calls |-> cs]

\* the body of  for func_name, run_check_func in ...items()  for one
\* function, for each thing the function can do; record = TRUE in health,
\* which stores a component for it
run_check(run, f, record) ==
    IF run.exc # "none" THEN {run}
    ELSE { LET res == FnResults[k]
               cs == Append(run.calls, Call(f.family, f.func_name, res))
           IN IF res = "raise"
              THEN Run("Exception", run.all_successful, run.components,
                       run.probes, cs)
              ELSE Run("none", run.all_successful /\ res = "True",
                       IF record
                       THEN (f.func_name :> ("status" :> _up_or_down(res = "True")))
                              @@ run.components
                       ELSE run.components,
                       run.probes, cs)
           : k \in 1..Len(FnResults) }

RECURSIVE run_checks(_, _, _)
run_checks(runs, fs, record) ==
    IF fs = <<>> THEN runs
    ELSE run_checks(UNION {run_check(r, Head(fs), record) : r \in runs},
                    Tail(fs), record)

\* the run after one call of _check_backend returned or raised r
probed(run, r, backend_name, hook) ==
    LET log == Append(run.probes,
                      [r.probe EXCEPT !.result = result_of(r.exc, r.ret)])
    IN IF r.exc # "none"
       THEN Run(r.exc, run.all_successful, run.components, log, run.calls)
       ELSE Run("none", run.all_successful /\ r.ret,
                IF hook
                THEN (backend_name :> (("status" :> _up_or_down(r.ret))
                                       @@ r.merged))
                       @@ run.components
                ELSE run.components,
                log, run.calls)

\* the body of  for backend_name, backend_host in ...items()  for one
\* dependency, for each answer the dependency can give
probe(env, app, run, dep, check_name, hook) ==
    IF run.exc # "none" THEN {run}
    ELSE { probed(run,
                  _check_backend(env, app, dep.name, dep.host, check_name,
                                 hook, Answers[a]),
                  dep.name, hook)
           : a \in 1..Len(Answers) }

RECURSIVE probe_all(_, _, _, _, _, _)
probe_all(env, app, runs, deps, check_name, hook) ==
    IF deps = <<>> THEN runs
    ELSE probe_all(env, app,
                   UNION {probe(env, app, r, Head(deps), check_name, hook)
                          : r \in runs},
                   Tail(deps), check_name, hook)

---------------------------------------------------------------------------
(* The handlers: each gives the outcomes one handling can have *)

\* GET /health
health(env, app) ==
    LET zc == _z_endpoints_config(app)
        config == zc.config
        start == Run("none", TRUE, <<>>, <<>>, <<>>)
        after_deps == probe_all(env, zc.app, {start},
                            config["service_dependencies"], NoStr, TRUE)
        done == run_checks(after_deps,
                           pluggable(config["check_functions"],
                                     checks_with_pluggable_functions),
                           TRUE)
    IN { IF r.exc # "none"
         THEN Outcome(Unhandled(r.exc), zc.app, r.probes, r.calls)
         ELSE Outcome(JsonResponse(("components" :> r.components)
                                     @@ ("status" :> _up_or_down(r.all_successful)),
                                   _success_status_code(r.all_successful)),
                      zc.app, r.probes, r.calls)
         : r \in done }

\* _terse_cascading_z_check: the runs of its loop
_terse_cascading_z_check(env, app, check_name) ==
    LET zc == _z_endpoints_config(app)
    IN probe_all(env, zc.app, {Run("none", TRUE, <<>>, <<>>, <<>>)},
                 zc.config["service_dependencies"], check_name, FALSE)

\* the else: abort(404) branch forgotten
known_check_mut(check_name) == TRUE

\* len(check_name) > 128 is false
not_too_long(check_name) == ~(Len(check_name) > MaxCheckNameLen)

\* the if/elif chain of nested_health_check does not end in abort(404)
known_check(check_name) ==
    \/ in_list(check_name, cascading_checks)
    \/ check_name = S_liveness
    \/ check_name = S_ping

\* GET /health/<check_name>
nested_health_check(env, app, check_name) ==
    IF ~not_too_long(check_name)
    THEN {Outcome(abort(404), app, <<>>, <<>>)}
    ELSE IF ~known_check(check_name)
    THEN {Outcome(abort(404), app, <<>>, <<>>)}
    ELSE LET zc == _z_endpoints_config(app)
             config == zc.config
             check_config == config["check_functions"]
             cascaded == IF in_list(check_name, cascading_checks)
                         THEN _terse_cascading_z_check(env, app, check_name)
                         ELSE {Run("none", TRUE, <<>>, <<>>, <<>>)}
             fs == IF in_list(check_name, checks_with_pluggable_functions)
                      /\ check_name \in DOMAIN check_config
                   THEN pluggable(check_config, <<check_name>>)
                   ELSE <<>>
             done == run_checks(cascaded, fs, FALSE)
         IN { IF r.exc # "none"
              THEN Outcome(Unhandled(r.exc), zc.app, r.probes, r.calls)
              ELSE Outcome(JsonResponse("status" :> _up_or_down(r.all_successful),
                                        _success_status_code(r.all_successful)),
                           zc.app, r.probes, r.calls)
              : r \in done }

\* GET /version
version(env, app) ==
    IF in_list(S_version_function, checks_with_pluggable_functions)
    THEN LET zc == _z_endpoints_config(app)
             version_function == zc.config["version_function"]
             returns == IF version_function = "_default_version_function"
                        THEN {_default_version_function(env)}
                        ELSE {CustomVersions[i] : i \in 1..Len(CustomVersions)}
         IN { Outcome(TupleResponse(v.body, v.status_code), zc.app, <<>>,
                      << [family |-> S_version_function,
                          func_name |-> version_function,
                          result |-> "returned",
                          body |-> v.body, status_code |-> v.status_code] >>)
              : v \in returns }
    ELSE {Outcome(abort(404), app, <<>>, <<>>)}

\* GET /info: the document comes from Info, outside this module
info(env, app) ==
    LET zc == _z_endpoints_config(app)
    IN {Outcome(JsonResponse("app" :> "info", 200), zc.app, <<>>, <<>>)}

---------------------------------------------------------------------------
(* Configurations and requests the model draws from *)

H_empty == <<>>
H_bad   == <<"l","o","c","a","l",":",":","/","/","h","o","s","t">>
H_bare  == <<"l","o","c","a","l","h","o","s","t",":","8","0","0","0">>
EngineHosts == <<H_empty, H_bad, H_bare>>

DepNames == <<"db", "cache", "queue", "search">>

\* the service_dependencies dicts of up to MaxDeps entries
DepLists ==
    UNION { { [i \in 1..k |-> [name |-> DepNames[i], host |-> EngineHosts[h[i]]]]
              : h \in [1..k -> 1..Len(EngineHosts)] }
            : k \in 0..MaxDeps }

\* the check_functions dicts; "db" is also the name of a dependency
CheckFunctionConfigs == <<
    <<>>,
    S_readiness :> <<"disk">>,
    (S_readiness :> <<"disk", "db">>) @@ (S_version_function :> <<"ver">>),
    (S_liveness :> <<"live">>) @@ (S_ping :> <<"live">>)
        @@ (S_readiness :> <<"disk">>) >>

Opt(present, key, val) == IF present THEN key :> val ELSE <<>>

\* the Z_ENDPOINTS dicts: every key is optional
ZConfigs ==
    { Opt(d # 0, "service_dependencies", IF d = 0 THEN <<>> ELSE dl)
        @@ Opt(c # 0, "check_functions",
               IF c = 0 THEN <<>> ELSE CheckFunctionConfigs[c])
        @@ Opt(v, "version_function", "custom_version_function")
        @@ Opt(e, "enable_service_instance_id", TRUE)
      : d \in 0..1, dl \in DepLists, c \in 0..Len(CheckFunctionConfigs),
        v \in BOOLEAN, e \in BOOLEAN }

AppConfigs ==
    { Opt(t, "BACKEND_TIMEOUT", 5) @@ Opt(z # 0, "Z_ENDPOINTS", zc)
      : t \in BOOLEAN, z \in 0..1, zc \in ZConfigs }

Env(p, sch, ver) == [PREFERRED_URL_SCHEME |-> p, SCHEME |-> sch, VERSION |-> ver]
EngineEnvs == { Env(NoStr, NoStr, NoStr), Env(S_https, S_http, <<"1",".","0">>) }

Pad(n) == [i \in 1..n |-> "x"]

\* the <check_name> of a request: the known names, names the blueprint does
\* not serve, and names around the length limit
CheckNames ==
    {S_readiness, S_liveness, S_ping, S_version_function, S_foo}
    \cup {Pad(n) : n \in (MaxCheckNameLen - 1)..(MaxCheckNameLen + MaxOver)}
    \cup {S_readiness \o Pad(MaxCheckNameLen - Len(S_readiness) + k)
          : k \in 0..MaxOver}

Req(route, check_name) == [route |-> route, check_name |-> check_name]
Idle == Req("idle", NoStr)

---------------------------------------------------------------------------
(* The state machine of the blueprint *)

NoRun == [backend_host |-> <<>>, check_name |-> <<>>]
NoResult == [done |-> TRUE, raised |-> FALSE, url |-> <<>>]

Init ==
    /\ app_config \in AppConfigs
    /\ environ \in EngineEnvs
    /\ request = Idle
    /\ response = NoResponse
    /\ cfg_before = app_config
    /\ probes = <<>>
    /\ calls = <<>>
    /\ r_in = NoRun
    /\ r_out = NoResult

\* a request is handled: one of the handler's outcomes happens
Handle(req, outcomes) ==
    /\ request = Idle
    /\ \E o \in outcomes :
         /\ request' = req
         /\ response' = o.response
         /\ cfg_before' = app_config
         /\ app_config' = o.app
         /\ probes' = o.probes
         /\ calls' = o.calls
    /\ UNCHANGED <<environ, r_in, r_out>>

Version == Handle(Req("/version", NoStr), version(environ, app_config))

Info == Handle(Req("/info", NoStr), info(environ, app_config))

Health == Handle(Req("/health", NoStr), health(environ, app_config))

NestedHealthCheck ==
    \E check_name \in CheckNames :
        Handle(Req("/health/<check_name>", check_name),
               nested_health_check(environ, app_config, check_name))

\* the response is sent and the request context is torn down
Send ==
    /\ request # Idle
    /\ request' = Idle
    /\ response' = NoResponse
    /\ cfg_before' = app_config
    /\ probes' = <<>>
    /\ calls' = <<>>
    /\ UNCHANGED <<app_config, environ, r_in, r_out>>

Next == Version \/ Info \/ Health \/ NestedHealthCheck \/ Send

Spec == Init /\ [][Next]_vars

---------------------------------------------------------------------------
(* Runs of the URL resolver alone: _backend_host_as_url applied to host    *)
(* specs made of an optional "http", "http://" or "https://" start and a   *)
(* free part of up to MaxBody characters.                                  *)

Alphabet == {"a", "A", "8", "0", ":", "/"}

Strings(n) == UNION {[1..k -> Alphabet] : k \in 0..n}

HostSpecs ==
    {start \o body : start \in {<<>>, S_http, S_http \o <<":","/","/">>,
                                S_https \o <<":","/","/">>},
                     body \in Strings(MaxBody)}

ResolveInit ==
    /\ app_config = <<>>
    /\ environ \in {Env(p, sch, NoStr) : p \in {NoStr, S_http, S_https},
                                         sch \in {NoStr, S_https}}
    /\ request = Idle
    /\ response = NoResponse
    /\ cfg_before = app_config
    /\ probes = <<>>
    /\ calls = <<>>
    /\ r_in \in {[backend_host |-> h, check_name |-> n]
                 : h \in HostSpecs, n \in {NoStr, S_foo, S_readiness}}
    /\ r_out = [done |-> FALSE, raised |-> FALSE, url |-> <<>>]

Resolve ==
    /\ ~r_out.done
    /\ LET r == _backend_host_as_url(environ, r_in.backend_host, r_in.check_name)
       IN r_out' = [done |-> TRUE, raised |-> r.raised, url |-> r.url]
    /\ UNCHANGED <<app_config, environ, request, response, cfg_before, probes,
                   calls, r_in>>

ResolveNext == Resolve

ResolveSpec == ResolveInit /\ [][ResolveNext]_vars

---------------------------------------------------------------------------
(* Runs of the backend prober alone: _check_backend called once, with or   *)
(* without a response hook, against a dependency that gives one of the     *)
(* Answers.                                                                *)

H_http == S_http

ProbeHosts == {H_empty, H_bad, H_bare, H_http}

\* the response_hook of health(), alone: the component it updates is empty
ProbeInit ==
    /\ app_config \in {Opt(t, "BACKEND_TIMEOUT", 5) : t \in BOOLEAN}
    /\ environ \in EngineEnvs
    /\ request = Idle
    /\ response = NoResponse
    /\ cfg_before = app_config
    /\ probes = <<>>
    /\ calls = <<>>
    /\ r_in \in {[backend_name |-> "db", backend_host |-> h, check_name |-> n,
                  hook |-> k, answer |-> Answers[a]]
                 : h \in ProbeHosts, n \in {NoStr, S_readiness},
                   k \in BOOLEAN, a \in 1..Len(Answers)}
    /\ r_out = [done |-> FALSE]

Probe ==
    /\ ~r_out.done
    /\ LET r == _check_backend(environ, app_config, r_in.backend_name,
                               r_in.backend_host, r_in.check_name,
                               r_in.hook, r_in.answer)
       IN r_out' = [done |-> TRUE, exc |-> r.exc, ret |-> r.ret,
                    merged |-> r.merged, url |-> r.probe.url,
                    sent |-> r.probe.sent]
    /\ UNCHANGED <<app_config, environ, request, response, cfg_before, probes,
                   calls, r_in>>

ProbeNext == Probe

ProbeSpec == ProbeInit /\ [][ProbeNext]_vars

---------------------------------------------------------------------------
(* Properties.  They read the registry as it was when the request arrived  *)
(* (cfg_before), the calls the handler made (probes, calls) and what the   *)
(* client received (response).  The properties of the health endpoints are *)
(* stated for an app that has set BACKEND_TIMEOUT, which _check_backend    *)
(* reads without a default.                                                *)

Registry ==
    IF "Z_ENDPOINTS" \in DOMAIN cfg_before THEN cfg_before["Z_ENDPOINTS"]
    ELSE <<>>
RegisteredDeps ==
    IF "service_dependencies" \in DOMAIN Registry
    THEN Registry["service_dependencies"] ELSE <<>>
RegisteredChecks ==
    IF "check_functions" \in DOMAIN Registry
    THEN Registry["check_functions"] ELSE <<>>
ChecksOf(family) ==
    IF family \in DOMAIN RegisteredChecks THEN RegisteredChecks[family]
    ELSE <<>>
VersionRegistered == "version_function" \in DOMAIN Registry

PluggableFamilies == {S_readiness, S_version_function}
KnownChecks == {S_readiness, S_liveness, S_ping}

\* the host app has set the timeout of the probes
TimeoutSet == "BACKEND_TIMEOUT" \in DOMAIN cfg_before

IsHealth == request.route = "/health"
IsNested == request.route = "/health/<check_name>"
IsVersion == request.route = "/version"

\* a health request to an app whose probes have their timeout
FullHealth == IsHealth /\ TimeoutSet
NestedHealth == IsNested /\ TimeoutSet

Up200 ==
    /\ response.kind = "json"
    /\ response.status_code = 200
    /\ response.json["status"] = "UP"
Down503 ==
    /\ response.kind = "json"
    /\ response.status_code = 503
    /\ response.json["status"] = "DOWN"

\* dependency i was probed with nested name n and classified up
DepUp(i, n) ==
    \E j \in 1..Len(probes) :
        /\ probes[j].backend_name = RegisteredDeps[i].name
        /\ probes[j].check_name = n
        /\ probes[j].result = "True"
AllDepsUp(n) == \A i \in 1..Len(RegisteredDeps) : DepUp(i, n)

\* how often function k of a family was run, and with which results
RunsOf(family, k) ==
    {j \in 1..Len(calls) : /\ calls[j].family = family
                           /\ calls[j].func_name = ChecksOf(family)[k]}
AllChecksTrue(families) ==
    \A f \in families : \A k \in 1..Len(ChecksOf(f)) :
        \E j \in RunsOf(f, k) : calls[j].result = "True"
AllChecksRunOnce(families) ==
    \A f \in families : \A k \in 1..Len(ChecksOf(f)) :
        Cardinality(RunsOf(f, k)) = 1
NoChecks(families) == \A f \in families : ChecksOf(f) = <<>>

RECURSIVE SumLen(_)
SumLen(fams) ==
    IF fams = {} THEN 0
    ELSE LET f == CHOOSE x \in fams : TRUE
         IN Len(ChecksOf(f)) + SumLen(fams \ {f})

\* C1: GET /health answers UP/200 exactly when every dependency probe was
\* classified up and every check function of the pluggable families
\* returned true, and DOWN/503 otherwise; with nothing registered it
\* answers UP/200 with empty components.
C1_FullHealthIffAllUp ==
    FullHealth =>
        /\ (AllDepsUp(NoStr) /\ AllChecksTrue(PluggableFamilies)) => Up200
        /\ ~(AllDepsUp(NoStr) /\ AllChecksTrue(PluggableFamilies)) => Down503
        /\ (RegisteredDeps = <<>> /\ NoChecks(PluggableFamilies)) =>
               (Up200 /\ DOMAIN response.json["components"] = {})

\* C2: whatever the dependencies and the check functions do, GET /health
\* and GET /health/<known name> answer UP with 200 or DOWN with 503.
C2_HealthNeverFails ==
    (FullHealth \/ (NestedHealth /\ request.check_name \in KnownChecks)) =>
        (Up200 \/ Down503)

\* C3: GET /health probes every registered dependency exactly once, with
\* no nested check name, runs every check function of the pluggable
\* families exactly once, and its components hold an entry for each
\* dependency name and each check function name.
C3_NoShortCircuit ==
    FullHealth =>
        /\ Len(probes) = Len(RegisteredDeps)
        /\ \A i \in 1..Len(RegisteredDeps) :
               /\ probes[i].backend_name = RegisteredDeps[i].name
               /\ probes[i].check_name = NoStr
        /\ Len(calls) = SumLen(PluggableFamilies)
        /\ AllChecksRunOnce(PluggableFamilies)
        /\ response.kind = "json"
        /\ \A i \in 1..Len(RegisteredDeps) :
               RegisteredDeps[i].name \in DOMAIN response.json["components"]
        /\ \A f \in PluggableFamilies : \A k \in 1..Len(ChecksOf(f)) :
               ChecksOf(f)[k] \in DOMAIN response.json["components"]

\* C4: GET /health/readiness answers UP/200 exactly when every dependency,
\* probed at its readiness path, is up and every readiness check function
\* returns true; a false check function gives DOWN/503 though all probes
\* are up; the check functions are run even after a probe has failed.
C4_ReadinessCascadesAndChecks ==
    (NestedHealth /\ request.check_name = S_readiness) =>
        /\ Up200 <=> (AllDepsUp(S_readiness) /\ AllChecksTrue({S_readiness}))
        /\ (AllDepsUp(S_readiness) /\ ~AllChecksTrue({S_readiness})) => Down503
        /\ (\E j \in 1..Len(probes) : probes[j].result # "True") =>
               AllChecksRunOnce({S_readiness})

\* C5: GET /health/liveness and GET /health/ping answer {status: UP} with
\* 200 in every registry state, and probe no dependency.
C5_LivenessAlwaysUp ==
    (IsNested /\ request.check_name \in {S_liveness, S_ping}) =>
        /\ Up200
        /\ DOMAIN response.json = {"status"}
        /\ probes = <<>>

\* C5 happens: liveness is asked of a registry whose first dependency has
\* an empty host spec and which registers a liveness check function.
C5_Witness ==
    /\ IsNested /\ request.check_name = S_liveness
    /\ RegisteredDeps # <<>> /\ RegisteredDeps[1].host = H_empty
    /\ ChecksOf(S_liveness) # <<>>
    /\ Up200

\* C6: GET /health/<name> answers 404 when the name has more than 128
\* characters or is none of readiness, liveness, ping, and then no
\* dependency was probed and no check function was run; a known name of at
\* most 128 characters is never answered 404.
C6_UnknownOrLongIs404 ==
    IsNested =>
        IF Len(request.check_name) > 128 \/ request.check_name \notin KnownChecks
        THEN /\ response.status_code = 404
             /\ response.kind = "abort"
             /\ probes = <<>>
             /\ calls = <<>>
        ELSE response.status_code # 404

\* C6 happens: a name of more than 128 characters is asked of a registry
\* that holds dependencies and check functions, and is answered 404.
C6_Witness ==
    /\ IsNested /\ Len(request.check_name) > 128
    /\ RegisteredDeps # <<>>
    /\ ChecksOf(S_readiness) # <<>>
    /\ response.status_code = 404

\* the response is what the one call of the version function returned
VersionVerbatim ==
    /\ Len(calls) = 1
    /\ response.kind = "text"
    /\ response.text = calls[1].body
    /\ response.status_code = calls[1].status_code

\* C7 as stated: GET /version returns the registered version function's
\* (body, status code) verbatim, and 404 when none is configured.
C7_VersionOr404 ==
    IsVersion =>
        IF VersionRegistered
        THEN VersionVerbatim /\ calls[1].func_name = Registry["version_function"]
        ELSE response.status_code = 404

\* C7 as amended: GET /version returns the registered version function's
\* (body, status code) verbatim; when none is configured it returns what
\* the default version function returns, the VERSION environment variable
\* (or "unknown" when that is unset or empty) with 200, never 404.
C7_VersionOrDefault ==
    IsVersion =>
        /\ VersionVerbatim
        /\ IF VersionRegistered
           THEN calls[1].func_name = Registry["version_function"]
           ELSE /\ calls[1].func_name = "_default_version_function"
                /\ response.status_code = 200
                /\ response.text = IF environ.VERSION # NoStr
                                   THEN environ.VERSION ELSE S_unknown

\* C7 happens: /version is asked with no version function configured and
\* VERSION unset, and is answered "unknown" with 200.
C7_Witness ==
    /\ IsVersion
    /\ ~VersionRegistered
    /\ environ.VERSION = NoStr
    /\ response.status_code = 200
    /\ response.text = S_unknown

\* a host spec that is empty, or from which no url can be parsed
Defective(host) == host = H_empty \/ host = H_bad

\* C8: in GET /health a dependency whose host spec is empty or cannot be
\* parsed fails to resolve, is sent no probe and is recorded as a DOWN
\* component, while every other dependency and every check function is
\* still evaluated and the answer is DOWN/503.
C8_ConfigurationDefectLocalized ==
    FullHealth =>
        \A i \in 1..Len(RegisteredDeps) :
            Defective(RegisteredDeps[i].host) =>
                /\ \E j \in 1..Len(probes) :
                       /\ probes[j].backend_name = RegisteredDeps[i].name
                       /\ probes[j].url = <<>>
                       /\ ~probes[j].sent
                       /\ probes[j].result = "False"
                /\ Len(probes) = Len(RegisteredDeps)
                /\ AllChecksRunOnce(PluggableFamilies)
                /\ Down503
                /\ RegisteredDeps[i].name \in DOMAIN response.json["components"]
                /\ response.json["components"][RegisteredDeps[i].name]["status"]
                       = "DOWN"

---------------------------------------------------------------------------
(* Properties of the URL resolver, read off a finished resolver run *)

IsAlnum(c) == IsAlpha(c) \/ c \in Digits

\* <host> or <host>:<port>, written as urllib3 prints them: the host name
\* in lower case, the port a decimal number without leading zeros
HostOrHostPort(s) ==
    LET i == find(s, ":")
        host == IF i = 0 THEN s ELSE SubSeq(s, 1, i - 1)
        port == IF i = 0 THEN <<>> ELSE from(s, i + 1)
    IN /\ host # <<>>
       /\ \A j \in 1..Len(host) : IsAlnum(host[j])
       /\ lower(host) = host
       /\ i # 0 => /\ port # <<>>
                   /\ \A j \in 1..Len(port) : port[j] \in Digits
                   /\ str(int(port)) = port
                   /\ int(port) <= MaxPort

HasScheme(s) ==
    \/ startswith(s, <<"h","t","t","p",":","/","/">>)
    \/ startswith(s, <<"h","t","t","p","s",":","/","/">>)

\* the part of s before its first '/'
BeforeSlash(s) ==
    IF find(s, "/") = 0 THEN s ELSE SubSeq(s, 1, find(s, "/") - 1)

Nested == IF r_in.check_name = NoStr THEN <<>> ELSE <<"/">> \o r_in.check_name

DefaultScheme ==
    IF environ.PREFERRED_URL_SCHEME # NoStr THEN environ.PREFERRED_URL_SCHEME
    ELSE IF environ.SCHEME # NoStr THEN environ.SCHEME
    ELSE <<"h","t","t","p">>

ResolvedTo(url) == ~r_out.raised /\ r_out.url = url

\* C9: a bare host or host:port (no scheme, no '/') resolves to
\* {defaultScheme}://{spec}/z/health, followed by /{nested} when a nested
\* check name is given, whatever characters the host name begins with.
C9_BareHostRule ==
    (r_out.done /\ ~contains(r_in.backend_host, "/")
                /\ HostOrHostPort(r_in.backend_host)) =>
        ResolvedTo(DefaultScheme \o <<":","/","/">> \o r_in.backend_host
                     \o <<"/","z","/","h","e","a","l","t","h">> \o Nested)

\* C10: a host spec with a path of its own gets neither prefix nor
\* /health: without a scheme it resolves to {defaultScheme}://{spec},
\* with the scheme http or https to the spec unchanged, each followed by
\* /{nested} when a nested check name is given.
C10_OwnPathRule ==
    r_out.done =>
        /\ (/\ ~HasScheme(r_in.backend_host)
            /\ contains(r_in.backend_host, "/")
            /\ HostOrHostPort(BeforeSlash(r_in.backend_host))) =>
               ResolvedTo(DefaultScheme \o <<":","/","/">> \o r_in.backend_host
                            \o Nested)
        /\ (/\ HasScheme(r_in.backend_host)
            /\ HostOrHostPort(BeforeSlash(
                   from(r_in.backend_host,
                        find(r_in.backend_host, ":") + 3)))) =>
               ResolvedTo(r_in.backend_host \o Nested)

---------------------------------------------------------------------------
(* Properties of the backend prober, read off a finished prober run *)

\* the url of the run was resolved: _backend_host_as_url returned
UrlResolved ==
    ~_backend_host_as_url(environ, r_in.backend_host, r_in.check_name).raised

\* the request completed with 200 and a JSON body whose status is "UP"
AnsweredUp ==
    /\ r_out.sent
    /\ r_in.answer.arrived
    /\ r_in.answer.status_code = 200
    /\ r_in.answer.body.t = "object"
    /\ "status" \in DOMAIN r_in.answer.body.obj
    /\ r_in.answer.body.obj["status"] = "UP"

\* C11: for every resolved url and every answer, _check_backend returns
\* a value, and it returns True exactly when the request completed with
\* status code 200 and a JSON body whose status field equals "UP".
C11_ProbeClassification ==
    (r_out.done /\ TimeoutSet /\ UrlResolved) =>
        /\ r_out.exc = "none"
        /\ r_out.ret <=> AnsweredUp

---------------------------------------------------------------------------
(* Properties of the components of a health answer *)

\* the component of the i-th dependency as the claim describes it: the
\* fields of the decoded body, and the status the probe was classified as
ComponentOf(i) ==
    ("status" :> _up_or_down(probes[i].result = "True"))
        @@ probes[i].response_json

\* C12: in every GET /health that is answered with a status document the
\* component of every dependency holds the fields of the decoded probe
\* body with a status equal to the classification of that probe, whatever
\* status the body carries; every status document of
\* GET /health/<check_name> is exactly {status: UP} or {status: DOWN}.
C12_MergedBodyKeepsOwnStatus ==
    response.kind = "json" =>
        /\ FullHealth =>
               \A i \in 1..Len(RegisteredDeps) :
                   /\ i <= Len(probes)
                   /\ RegisteredDeps[i].name
                          \in DOMAIN response.json["components"]
                   /\ response.json["components"][RegisteredDeps[i].name]
                          = ComponentOf(i)
        /\ NestedHealth =>
               /\ DOMAIN response.json = {"status"}
               /\ response.json["status"] \in {"UP", "DOWN"}

---------------------------------------------------------------------------
(* Properties of the shared configuration *)

\* C13: handling a request of any route leaves current_app.config, and
\* the Z_ENDPOINTS registry in it, as it was when the request arrived.
C13_RegistryReadOnly ==
    request # Idle => app_config = cfg_before

====
